---- MODULE Spec2Model ----
(***************************************************************************)
(* Course navigation tabs (common/lib/xmodule/xmodule/tabs.py):            *)
(* CourseTab / CourseViewTab objects, the CourseTabList field that holds   *)
(* them, its validation and its JSON (de)serialization.                    *)
(*                                                                         *)
(* Python values are modelled as records with a "kind" field:              *)
(*   [kind |-> "dict", items |-> f]   a plain dict, f a function from the  *)
(*                                    keys that are present to their values*)
(*   [kind |-> "tab", cls |-> ...]    a CourseTab instance                 *)
(*   [kind |-> "other"]               a value that is neither              *)
(*   [kind |-> "none"]                None where a tab is expected         *)
(* A list argument that may be None is [none |-> BOOLEAN, items |-> Seq].  *)
(***************************************************************************)
EXTENDS Integers, Sequences, FiniteSets, TLC

VARIABLES
    tabs,              \* course.tabs: the stored sequence of tab objects
    discussion_link,   \* course.discussion_link
    syllabus_present,  \* course.syllabus_present
    textbooks,         \* the number of books in course.textbooks
    values,            \* the argument of the list-level (de)serialization calls
    call               \* the last call made and what it produced

vars == <<tabs, discussion_link, syllabus_present, textbooks, values, call>>

(***************************************************************************)
(* Bounds of the model.                                                    *)
(***************************************************************************)
MaxLen == 4        \* longest list of plain records passed as an argument
MaxRecs == 3       \* longest list of rich records / of tabs passed as an argument
MaxMixed == 3      \* longest mixed list passed to CourseTabList.to_json
MaxTabs == 3       \* longest stored list that append still extends
MaxBeforeDefault == 7  \* longest stored list initialize_default is still called on
MaxExtend == 2
MaxLive == 2
MaxStored == 2
MaxShown == 3      \* longest stored list iterate_displayable is called on
MaxBooks == 2      \* most books in course.textbooks

(***************************************************************************)
(* Python None for string-valued fields, and the strings of the model.     *)
(***************************************************************************)
None == "None"
NoTab == [kind |-> "none"]
Other == [kind |-> "other"]
ForumLink == "http://forum.example"

PyNone == [none |-> TRUE, items |-> <<>>]
PyList(s) == [none |-> FALSE, items |-> s]

Dict(f) == [kind |-> "dict", items |-> f]
IsDict(e) == e.kind = "dict"
IsTab(e) == e.kind = "tab"

\* dict.get(key, default)
DictGet(f, key, default) == IF key \in DOMAIN f THEN f[key] ELSE default

(***************************************************************************)
(* The tab type registry (CourseViewTypeManager and the registered types). *)
(* is_view: the type is a CourseViewType (rendered by CourseViewTab);      *)
(* otherwise the plugin is itself a CourseTab subclass.                    *)
(***************************************************************************)
ViewType(title, view_name, hideable, collection, required) ==
    [title |-> title, view_name |-> view_name, is_hideable |-> hideable,
     is_collection |-> collection, is_view |-> TRUE, required |-> required]

Registry ==
    [courseware |-> ViewType("Courseware", "courseware", FALSE, FALSE, {"type"}),
     course_info |-> ViewType("Course Info", "info", FALSE, FALSE, {"type", "name"}),
     syllabus |-> ViewType("Syllabus", "syllabus", FALSE, FALSE, {"type"}),
     textbooks |-> ViewType("Textbooks", "book", FALSE, TRUE, {"type"}),
     pdf_textbooks |-> ViewType("Textbooks", "pdf_book", FALSE, TRUE, {"type"}),
     html_textbooks |-> ViewType("Textbooks", "html_book", FALSE, TRUE, {"type"}),
     discussion |-> ViewType("Discussion", "forum", FALSE, FALSE, {"type", "name"}),
     wiki |-> ViewType("Wiki", "course_wiki", TRUE, FALSE, {"type", "name"}),
     progress |-> ViewType("Progress", "progress", FALSE, FALSE, {"type", "name"}),
     notes |-> ViewType("Notes", "notes", FALSE, FALSE, {"type", "name"}),
     external_discussion |->
        [title |-> "Discussion", view_name |-> None, is_hideable |-> FALSE,
         is_collection |-> FALSE, is_view |-> FALSE, required |-> {"type", "link"}]]

\* CourseViewTypeManager.get_plugin succeeds exactly for these names
KnownTypes == DOMAIN Registry

(***************************************************************************)
(* Validators (key_checker) and link functions.                            *)
(***************************************************************************)
\* mutant: a missing key is reported by the result only, never raised
key_checker_silent(expected_keys, actual_dict, raise_error) ==
    [result |-> (expected_keys \ DOMAIN actual_dict) = {}, raised |-> FALSE]

\* key_checker(expected_keys)(actual_dict, raise_error)
key_checker(expected_keys, actual_dict, raise_error) ==
    LET missing == expected_keys \ DOMAIN actual_dict
    IN  IF missing = {} THEN [result |-> TRUE, raised |-> FALSE]
        ELSE IF raise_error THEN [result |-> FALSE, raised |-> TRUE]
        ELSE [result |-> FALSE, raised |-> FALSE]

\* need_name(dictionary, raise_error)
need_name(dictionary, raise_error) == key_checker({"name"}, dictionary, raise_error)

\* CourseTab.validate(tab_dict, raise_error): the base validator
CourseTab_validate(tab_dict, raise_error) == key_checker({"type"}, tab_dict, raise_error)

\* tab_type.validate(tab_dict, raise_error) of a registered type
TypeValidate(type_name, tab_dict, raise_error) ==
    key_checker(Registry[type_name].required, tab_dict, raise_error)

link_reverse_func(reverse_name) == [fn |-> "reverse", arg |-> reverse_name]
link_value_func(value) == [fn |-> "value", arg |-> value]

(***************************************************************************)
(* Tab objects.                                                            *)
(***************************************************************************)
\* CourseTab.__init__ with the class attributes of CourseTab
CourseTabInit(cls, type, name, tab_id, link_func) ==
    [kind |-> "tab", cls |-> cls, type |-> type, name |-> name, tab_id |-> tab_id,
     link_func |-> link_func, is_hideable |-> FALSE, is_movable |-> TRUE,
     is_collection |-> FALSE, is_hidden |-> FALSE]

\* CourseViewTab.__init__(course_view_type, tab_dict)
CourseViewTabInit(type_name, tab_dict) ==
    LET t == Registry[type_name]
        base == CourseTabInit("CourseViewTab", type_name,
                    IF DOMAIN tab_dict # {} THEN DictGet(tab_dict, "name", t.title)
                    ELSE t.title,
                    type_name, link_reverse_func(t.view_name))
    IN  [base EXCEPT !.is_hideable = t.is_hideable,
                     !.is_hidden = IF DOMAIN tab_dict # {}
                                   THEN DictGet(tab_dict, "is_hidden", FALSE)
                                   ELSE FALSE,
                     !.is_collection = t.is_collection]

\* tab_type(tab_dict=tab_dict) for a registered CourseTab subclass that
\* links to a fixed URL
PluginTabInit(type_name, tab_dict) ==
    CourseTabInit("LinkTab", type_name,
                  DictGet(tab_dict, "name", Registry[type_name].title),
                  type_name, link_value_func(tab_dict["link"]))

\* a static tab: a CourseTab subclass that also carries the url_slug of its page
StaticTabInit(name, url_slug, tab_id) ==
    [f \in {"kind", "cls", "type", "name", "tab_id", "link_func", "is_hideable",
            "is_movable", "is_collection", "is_hidden", "url_slug"} |->
        IF f = "url_slug" THEN url_slug
        ELSE CourseTabInit("StaticTab", "static_tab", name, tab_id,
                           link_reverse_func("static_tab"))[f]]

\* CourseTab.to_json
CourseTab_to_json(tab) == [type |-> tab.type, name |-> tab.name]

\* mutant: is_hidden is never written
CourseViewTab_to_json_never(tab) == [type |-> tab.type, name |-> tab.name]

\* mutant: is_hidden is written whatever its value
CourseViewTab_to_json_always(tab) ==
    [k \in {"type", "name", "is_hidden"} |->
        IF k = "is_hidden" THEN tab.is_hidden ELSE CourseTab_to_json(tab)[k]]

\* CourseViewTab.to_json
CourseViewTab_to_json(tab) ==
    IF tab.is_hidden
    THEN [k \in {"type", "name", "is_hidden"} |->
            IF k = "is_hidden" THEN TRUE ELSE CourseTab_to_json(tab)[k]]
    ELSE CourseTab_to_json(tab)

\* to_json of a link tab: the base record plus its link
PluginTab_to_json(tab) ==
    [k \in {"type", "name", "link"} |->
        IF k = "link" THEN tab.link_func.arg ELSE CourseTab_to_json(tab)[k]]

\* to_json of a static tab: the base record plus its url_slug
StaticTab_to_json(tab) ==
    [k \in {"type", "name", "url_slug"} |->
        IF k = "url_slug" THEN tab.url_slug ELSE CourseTab_to_json(tab)[k]]

\* tab.to_json(), dispatched on the tab's class
Tab_to_json(tab) ==
    IF tab.cls = "CourseViewTab" THEN CourseViewTab_to_json(tab)
    ELSE IF tab.cls = "LinkTab" THEN PluginTab_to_json(tab)
    ELSE IF tab.cls = "StaticTab" THEN StaticTab_to_json(tab)
    ELSE CourseTab_to_json(tab)

\* CourseTab.__getitem__: [found, value]
CourseTab_getitem(tab, key) ==
    IF key = "name" THEN [found |-> TRUE, value |-> tab.name]
    ELSE IF key = "type" THEN [found |-> TRUE, value |-> tab.type]
    ELSE IF key = "tab_id" THEN [found |-> TRUE, value |-> tab.tab_id]
    ELSE [found |-> FALSE, value |-> None]

\* CourseViewTab.__getitem__
CourseViewTab_getitem(tab, key) ==
    IF key = "is_hidden" THEN [found |-> TRUE, value |-> tab.is_hidden]
    ELSE CourseTab_getitem(tab, key)

\* __getitem__ of a static tab
StaticTab_getitem(tab, key) ==
    IF key = "url_slug" THEN [found |-> TRUE, value |-> tab.url_slug]
    ELSE CourseTab_getitem(tab, key)

\* tab[key], dispatched on the tab's class
Tab_getitem(tab, key) ==
    IF tab.cls = "CourseViewTab" THEN CourseViewTab_getitem(tab, key)
    ELSE IF tab.cls = "StaticTab" THEN StaticTab_getitem(tab, key)
    ELSE CourseTab_getitem(tab, key)

\* mutant: an unknown key yields None whatever default was supplied
CourseTab_get_none(tab, key, default) ==
    LET r == Tab_getitem(tab, key) IN IF r.found THEN r.value ELSE None

\* CourseTab.get(key, default)
CourseTab_get(tab, key, default) ==
    LET r == Tab_getitem(tab, key) IN IF r.found THEN r.value ELSE default

\* mutant: 'type' can be assigned like 'name'
CourseTab_setitem_type_settable(tab, key, value) ==
    IF key = "name" THEN [outcome |-> "return", tab |-> [tab EXCEPT !.name = value]]
    ELSE IF key = "tab_id" THEN [outcome |-> "return", tab |-> [tab EXCEPT !.tab_id = value]]
    ELSE IF key = "type" THEN [outcome |-> "return", tab |-> [tab EXCEPT !.type = value]]
    ELSE [outcome |-> "KeyError", tab |-> tab]

\* CourseTab.__setitem__: [outcome, tab]
CourseTab_setitem(tab, key, value) ==
    IF key = "name" THEN [outcome |-> "return", tab |-> [tab EXCEPT !.name = value]]
    ELSE IF key = "tab_id" THEN [outcome |-> "return", tab |-> [tab EXCEPT !.tab_id = value]]
    ELSE [outcome |-> "KeyError", tab |-> tab]

\* mutant: assigning is_hidden can hide a tab but never show it again
CourseViewTab_setitem_sticky(tab, key, value) ==
    IF key = "is_hidden"
    THEN [outcome |-> "return", tab |-> [tab EXCEPT !.is_hidden = tab.is_hidden \/ value]]
    ELSE CourseTab_setitem(tab, key, value)

\* CourseViewTab.__setitem__
CourseViewTab_setitem(tab, key, value) ==
    IF key = "is_hidden" THEN [outcome |-> "return", tab |-> [tab EXCEPT !.is_hidden = value]]
    ELSE CourseTab_setitem(tab, key, value)

\* tab[key] = value, dispatched on the tab's class
Tab_setitem(tab, key, value) ==
    IF tab.cls = "CourseViewTab" THEN CourseViewTab_setitem(tab, key, value)
    ELSE CourseTab_setitem(tab, key, value)

\* e.get(key, default) for a list element that is a dict or a tab
ElemGet(e, key, default) ==
    IF IsDict(e) THEN DictGet(e.items, key, default) ELSE CourseTab_get(e, key, default)

\* mutant: an unknown type is an error instead of "no tab"
CourseTab_from_json_strict(tab_dict) ==
    LET tab_type_name == DictGet(tab_dict, "type", None)
    IN  IF tab_type_name \notin KnownTypes
        THEN [outcome |-> "InvalidTabsException", tab |-> NoTab]
        ELSE IF TypeValidate(tab_type_name, tab_dict, TRUE).raised
        THEN [outcome |-> "InvalidTabsException", tab |-> NoTab]
        ELSE IF Registry[tab_type_name].is_view
        THEN [outcome |-> "return", tab |-> CourseViewTabInit(tab_type_name, tab_dict)]
        ELSE [outcome |-> "return", tab |-> PluginTabInit(tab_type_name, tab_dict)]

\* CourseTab.from_json(tab_dict): [outcome, tab]
CourseTab_from_json(tab_dict) ==
    LET tab_type_name == DictGet(tab_dict, "type", None)
    IN  IF tab_type_name \notin KnownTypes
        THEN [outcome |-> "return", tab |-> NoTab]
        ELSE IF TypeValidate(tab_type_name, tab_dict, TRUE).raised
        THEN [outcome |-> "InvalidTabsException", tab |-> NoTab]
        ELSE IF Registry[tab_type_name].is_view
        THEN [outcome |-> "return", tab |-> CourseViewTabInit(tab_type_name, tab_dict)]
        ELSE [outcome |-> "return", tab |-> PluginTabInit(tab_type_name, tab_dict)]

(***************************************************************************)
(* CourseTabList: validation.                                              *)
(***************************************************************************)
\* the types validate_tabs allows at most once, in the order it checks them
SingletonTypes ==
    <<"courseware", "course_info", "notes", "textbooks", "pdf_textbooks", "html_textbooks">>

\* sum(1 for tab in tabs if tab.get('type') == tab_type)
CountOfType(s, tab_type) ==
    Cardinality({i \in 1..Len(s) : ElemGet(s[i], "type", None) = tab_type})

\* mutant: raises as soon as the type occurs max_num times
_validate_num_tabs_of_type_atleast(s, tab_type, max_num) ==
    Cardinality({i \in 1..Len(s) : ElemGet(s[i], "type", None) = tab_type}) >= max_num

\* CourseTabList._validate_num_tabs_of_type: TRUE when it raises
_validate_num_tabs_of_type(s, tab_type, max_num) == CountOfType(s, tab_type) > max_num

Raise(reason) == [outcome |-> "InvalidTabsException", reason |-> reason]
Return == [outcome |-> "return", reason |-> ""]

\* mutant: the one-entry list is let through when it is a courseware tab
validate_tabs_lone(v) ==
    IF v.none \/ Len(v.items) = 0 THEN Return
    ELSE IF ElemGet(v.items[1], "type", None) # "courseware"
    THEN Raise("Expected first tab to have type 'courseware'")
    ELSE IF Len(v.items) < 2 THEN Return
    ELSE IF ElemGet(v.items[2], "type", None) # "course_info"
    THEN Raise("Expected second tab to have type 'course_info'")
    ELSE IF \E k \in 1..Len(SingletonTypes) :
                _validate_num_tabs_of_type(v.items, SingletonTypes[k], 1)
    THEN Raise("Tab appears more than once")
    ELSE Return

\* CourseTabList.validate_tabs(tabs): [outcome, reason]
validate_tabs(v) ==
    IF v.none \/ Len(v.items) = 0 THEN Return
    ELSE IF Len(v.items) < 2 THEN Raise("Expected at least two tabs")
    ELSE IF ElemGet(v.items[1], "type", None) # "courseware"
    THEN Raise("Expected first tab to have type 'courseware'")
    ELSE IF ElemGet(v.items[2], "type", None) # "course_info"
    THEN Raise("Expected second tab to have type 'course_info'")
    ELSE IF \E k \in 1..Len(SingletonTypes) :
                _validate_num_tabs_of_type(v.items, SingletonTypes[k], 1)
    THEN Raise("Tab appears more than once")
    ELSE Return

(***************************************************************************)
(* CourseTabList: serialization.                                           *)
(***************************************************************************)
RECURSIVE to_json_loop(_)
\* the loop of CourseTabList.to_json over the remaining values
to_json_loop(s) ==
    IF s = <<>> THEN <<>>
    ELSE LET val == Head(s)
         IN  (IF IsTab(val) THEN <<Dict(Tab_to_json(val))>>
              ELSE IF IsDict(val) THEN <<val>>
              ELSE <<>>) \o to_json_loop(Tail(s))

\* mutant: only live tabs are serialized, plain records are skipped too
CourseTabList_to_json_tabs_only(v) ==
    IF v.none \/ Len(v.items) = 0 THEN <<>> ELSE to_json_loop(SelectSeq(v.items, IsTab))

\* CourseTabList.to_json(values): the list of records
CourseTabList_to_json(v) ==
    IF v.none \/ Len(v.items) = 0 THEN <<>> ELSE to_json_loop(v.items)

RECURSIVE from_json_loop(_, _, _)
\* the loop of CourseTabList.from_json: s the records still to read, acc the
\* tabs built so far, seen the records handed to CourseTab.from_json so far
from_json_loop(s, acc, seen) ==
    IF s = <<>> THEN [outcome |-> "return", out |-> acc, factory_calls |-> seen]
    ELSE LET r == CourseTab_from_json(Head(s).items)
         IN  IF r.outcome # "return"
             THEN [outcome |-> r.outcome, out |-> <<>>,
                   factory_calls |-> Append(seen, Head(s))]
             ELSE from_json_loop(Tail(s),
                                 IF r.tab.kind # "none" THEN Append(acc, r.tab) ELSE acc,
                                 Append(seen, Head(s)))

\* mutant: the records are deserialized before the list is validated
CourseTabList_from_json_late(v) ==
    IF v.none THEN [outcome |-> "return", out |-> <<>>, factory_calls |-> <<>>]
    ELSE LET r == from_json_loop(v.items, <<>>, <<>>)
         IN  IF r.outcome = "return" /\ validate_tabs(v).outcome # "return"
             THEN [outcome |-> validate_tabs(v).outcome, out |-> <<>>,
                   factory_calls |-> r.factory_calls]
             ELSE r

\* CourseTabList.from_json(values): [outcome, out, factory_calls]
CourseTabList_from_json(v) ==
    IF validate_tabs(v).outcome # "return"
    THEN [outcome |-> validate_tabs(v).outcome, out |-> <<>>, factory_calls |-> <<>>]
    ELSE IF v.none
    THEN [outcome |-> "TypeError", out |-> <<>>, factory_calls |-> <<>>]
    ELSE from_json_loop(v.items, <<>>, <<>>)

(***************************************************************************)
(* Tab equality.                                                           *)
(***************************************************************************)
\* CourseTab.__eq__(self, other), other a tab or a dict
CourseTab_eq(self, other) ==
    IF IsDict(other) /\ ~CourseTab_validate(other.items, FALSE).result
    THEN FALSE
    ELSE LET name_is_eq == \/ ElemGet(other, "name", None) = None
                           \/ self.name = ElemGet(other, "name", None)
         IN  self.type = ElemGet(other, "type", None) /\ name_is_eq

\* CourseTab.__ne__(self, other)
CourseTab_ne(self, other) == ~CourseTab_eq(self, other)

\* list == list: same length and pairwise ==
ListEq(a, b) ==
    /\ Len(a) = Len(b)
    /\ \A i \in 1..Len(a) : CourseTab_eq(a[i], b[i])

(***************************************************************************)
(* CourseTabList: the operations on a course.                              *)
(***************************************************************************)
\* truth value of course.discussion_link
Truthy(link) == link # None /\ link # ""

\* the record get_discussion and initialize_default build for the override
ExternalDiscussionDict(link) ==
    [type |-> "external_discussion", name |-> "External Discussion", link |-> link]

\* mutant: the discussion tab is appended before the textbooks tab
initialize_default_discussion_first(course_tabs, has_syllabus, link) ==
    LET F(d) == CourseTab_from_json(d).tab
        t1 == course_tabs \o <<F([type |-> "courseware", name |-> "Courseware"]),
                               F([type |-> "course_info", name |-> "Course Info"])>>
        t2 == IF has_syllabus
              THEN Append(t1, F([type |-> "syllabus", name |-> "Syllabus"]))
              ELSE t1
        discussion_tab ==
              IF Truthy(link) THEN F(ExternalDiscussionDict(link))
              ELSE F([type |-> "discussion", name |-> "Discussion"])
    IN  t2 \o <<discussion_tab,
                F([type |-> "textbooks", name |-> "Textbooks"]),
                F([type |-> "wiki", name |-> "Wiki"]),
                F([type |-> "progress", name |-> "Progress"])>>

\* mutant: the two leading tabs are appended in the other order
initialize_default_info_first(course_tabs, has_syllabus, link) ==
    LET F(d) == CourseTab_from_json(d).tab
        t1 == course_tabs \o <<F([type |-> "course_info", name |-> "Course Info"]),
                               F([type |-> "courseware", name |-> "Courseware"])>>
        t2 == IF has_syllabus
              THEN Append(t1, F([type |-> "syllabus", name |-> "Syllabus"]))
              ELSE t1
        discussion_tab ==
              IF Truthy(link) THEN F(ExternalDiscussionDict(link))
              ELSE F([type |-> "discussion", name |-> "Discussion"])
    IN  t2 \o <<F([type |-> "textbooks", name |-> "Textbooks"]),
                discussion_tab,
                F([type |-> "wiki", name |-> "Wiki"]),
                F([type |-> "progress", name |-> "Progress"])>>

\* CourseTabList.initialize_default(course): the new course.tabs
initialize_default(course_tabs, has_syllabus, link) ==
    LET F(d) == CourseTab_from_json(d).tab
        t1 == course_tabs \o <<F([type |-> "courseware", name |-> "Courseware"]),
                               F([type |-> "course_info", name |-> "Course Info"])>>
        t2 == IF has_syllabus
              THEN Append(t1, F([type |-> "syllabus", name |-> "Syllabus"]))
              ELSE t1
        discussion_tab ==
              IF Truthy(link) THEN F(ExternalDiscussionDict(link))
              ELSE F([type |-> "discussion", name |-> "Discussion"])
    IN  t2 \o <<F([type |-> "textbooks", name |-> "Textbooks"]),
                discussion_tab,
                F([type |-> "wiki", name |-> "Wiki"]),
                F([type |-> "progress", name |-> "Progress"])>>

\* mutant: a stored discussion tab is preferred to the override
get_discussion_stored_first(course_tabs, link) ==
    LET found == {i \in 1..Len(course_tabs) :
                     \/ course_tabs[i].type = "discussion"
                     \/ course_tabs[i].type = "external_discussion"}
    IN  IF found # {}
        THEN LET first == CHOOSE i \in found : \A j \in found : i <= j
             IN  [outcome |-> "return", tab |-> course_tabs[first], ref |-> first]
        ELSE IF Truthy(link)
        THEN [outcome |-> CourseTab_from_json(ExternalDiscussionDict(link)).outcome,
              tab |-> CourseTab_from_json(ExternalDiscussionDict(link)).tab,
              ref |-> 0]
        ELSE [outcome |-> "return", tab |-> NoTab, ref |-> 0]

\* mutant: only tabs of type 'discussion' are looked for
get_discussion_one_type(course_tabs, link) ==
    IF Truthy(link)
    THEN [outcome |-> CourseTab_from_json(ExternalDiscussionDict(link)).outcome,
          tab |-> CourseTab_from_json(ExternalDiscussionDict(link)).tab,
          ref |-> 0]
    ELSE LET found == {i \in 1..Len(course_tabs) : course_tabs[i].type = "discussion"}
         IN  IF found = {} THEN [outcome |-> "return", tab |-> NoTab, ref |-> 0]
             ELSE LET first == CHOOSE i \in found : \A j \in found : i <= j
                  IN  [outcome |-> "return", tab |-> course_tabs[first], ref |-> first]

\* CourseTabList.get_discussion(course): [outcome, tab, ref]; ref is the index
\* in course.tabs of the object returned, 0 when the object is not a stored one
get_discussion(course_tabs, link) ==
    IF Truthy(link)
    THEN [outcome |-> CourseTab_from_json(ExternalDiscussionDict(link)).outcome,
          tab |-> CourseTab_from_json(ExternalDiscussionDict(link)).tab,
          ref |-> 0]
    ELSE LET found == {i \in 1..Len(course_tabs) :
                          \/ course_tabs[i].type = "discussion"
                          \/ course_tabs[i].type = "external_discussion"}
         IN  IF found = {} THEN [outcome |-> "return", tab |-> NoTab, ref |-> 0]
             ELSE LET first == CHOOSE i \in found : \A j \in found : i <= j
                  IN  [outcome |-> "return", tab |-> course_tabs[first], ref |-> first]

\* what a lookup reports: the tab found and its index, or None
Found(tab_list, i) == [outcome |-> "return", tab |-> tab_list[i], ref |-> i]
NotFound == [outcome |-> "return", tab |-> NoTab, ref |-> 0]

\* the value a lookup compares with its argument
LookupField(tab, by) ==
    CASE by = "url_slug" -> CourseTab_get(tab, "url_slug", None)
      [] by = "type" -> tab.type
      [] by = "tab_id" -> tab.tab_id

RECURSIVE next_match(_, _, _, _)
\* next((tab for tab in tab_list if <field of tab> == wanted), None), from index i
next_match(tab_list, i, by, wanted) ==
    IF i > Len(tab_list) THEN NotFound
    ELSE IF LookupField(tab_list[i], by) = wanted THEN Found(tab_list, i)
    ELSE next_match(tab_list, i + 1, by, wanted)

\* CourseTabList.get_tab_by_slug(tab_list, url_slug)
get_tab_by_slug(tab_list, url_slug) == next_match(tab_list, 1, "url_slug", url_slug)

\* mutant: the last tab of the type is returned
get_tab_by_type_last(tab_list, tab_type) ==
    LET hits == {i \in 1..Len(tab_list) : tab_list[i].type = tab_type}
    IN  IF hits = {} THEN NotFound
        ELSE Found(tab_list, CHOOSE i \in hits : \A j \in hits : j <= i)

\* CourseTabList.get_tab_by_type(tab_list, tab_type)
get_tab_by_type(tab_list, tab_type) == next_match(tab_list, 1, "type", tab_type)

\* CourseTabList.get_tab_by_id(tab_list, tab_id)
get_tab_by_id(tab_list, tab_id) == next_match(tab_list, 1, "tab_id", tab_id)

(***************************************************************************)
(* CourseTabList: the tabs to display.                                     *)
(***************************************************************************)
\* the course object a call receives
CourseOf(course_tabs, link, has_syllabus, books) ==
    [tabs |-> course_tabs, discussion_link |-> link,
     syllabus_present |-> has_syllabus, textbooks |-> books]

\* course_view_type.is_enabled(course, settings, user) of a registered type
TypeIsEnabled(type_name, course, settings, user) ==
    CASE type_name = "wiki" -> settings.WIKI_ENABLED
      [] type_name \in {"textbooks", "pdf_textbooks", "html_textbooks"} ->
            settings.ENABLE_TEXTBOOK
      [] type_name = "syllabus" -> course.syllabus_present
      [] OTHER -> TRUE

\* CourseTab.is_enabled(course, settings, user)
CourseTab_is_enabled(tab, course, settings, user) == TRUE

\* CourseViewTab.is_enabled(course, settings, user)
CourseViewTab_is_enabled(tab, course, settings, user) ==
    IF ~CourseTab_is_enabled(tab, course, settings, user) THEN FALSE
    ELSE TypeIsEnabled(tab.type, course, settings, user)

\* tab.is_enabled(course, settings, user), dispatched on the tab's class
Tab_is_enabled(tab, course, settings, user) ==
    IF tab.cls = "CourseViewTab" THEN CourseViewTab_is_enabled(tab, course, settings, user)
    ELSE CourseTab_is_enabled(tab, course, settings, user)

BookIds == <<"textbook/0", "textbook/1", "textbook/2", "textbook/3">>

\* course_view_type.items(course) of a collection type: one tab per book
TypeItems(type_name, course) ==
    [j \in 1..course.textbooks |->
        CourseTabInit("SingleTextbookTab", "single_textbook", BookIds[j], BookIds[j],
                      link_reverse_func(Registry[type_name].view_name))]

\* CourseViewTab.items(course)
CourseViewTab_items(tab, course) == TypeItems(tab.type, course)

\* mutant: a disabled tab is displayed all the same
Displayable_any(tab, course, settings, user) ==
    user = None \/ ~tab.is_hideable \/ ~tab.is_hidden

\* mutant: a hidden tab is hidden from everyone, staff callers included
Displayable_strict(tab, course, settings, user) ==
    /\ Tab_is_enabled(tab, course, settings, user)
    /\ (~tab.is_hideable \/ ~tab.is_hidden)

\* the filter of iterate_displayable
Displayable(tab, course, settings, user) ==
    /\ Tab_is_enabled(tab, course, settings, user)
    /\ (user = None \/ ~tab.is_hideable \/ ~tab.is_hidden)

Entry(tab, i, j) == [tab |-> tab, src |-> i, item |-> j]

\* mutant: an inlined collection is yielded before its items
Yielded_with_collection(tab, i, course, inline_collections) ==
    IF tab.is_collection
    THEN IF inline_collections
         THEN <<Entry(tab, i, 0)>> \o
              [j \in 1..Len(CourseViewTab_items(tab, course)) |->
                  Entry(CourseViewTab_items(tab, course)[j], i, j)]
         ELSE IF Len(CourseViewTab_items(tab, course)) > 0 THEN <<Entry(tab, i, 0)>>
         ELSE <<>>
    ELSE <<Entry(tab, i, 0)>>

\* mutant: a collection shown as one tab is yielded even when it is empty
Yielded_when_empty(tab, i, course, inline_collections) ==
    IF tab.is_collection /\ inline_collections
    THEN [j \in 1..Len(CourseViewTab_items(tab, course)) |->
             Entry(CourseViewTab_items(tab, course)[j], i, j)]
    ELSE <<Entry(tab, i, 0)>>

\* what iterate_displayable yields for the displayable tab stored at index i:
\* entries [tab, src, item], src the index of the stored tab, item the
\* position among its items (0 for the stored tab itself)
Yielded(tab, i, course, inline_collections) ==
    IF tab.is_collection
    THEN IF inline_collections
         THEN [j \in 1..Len(CourseViewTab_items(tab, course)) |->
                  Entry(CourseViewTab_items(tab, course)[j], i, j)]
         ELSE IF Len(CourseViewTab_items(tab, course)) > 0 THEN <<Entry(tab, i, 0)>>
         ELSE <<>>
    ELSE <<Entry(tab, i, 0)>>

RECURSIVE iterate_from(_, _, _, _, _)
\* the loop of iterate_displayable from the i-th stored tab on
iterate_from(i, course, settings, user, inline_collections) ==
    IF i > Len(course.tabs) THEN <<>>
    ELSE (IF Displayable(course.tabs[i], course, settings, user)
          THEN Yielded(course.tabs[i], i, course, inline_collections)
          ELSE <<>>)
         \o iterate_from(i + 1, course, settings, user, inline_collections)

RECURSIVE iterate_backwards(_, _, _, _, _)
iterate_backwards(i, course, settings, user, inline_collections) ==
    IF i < 1 THEN <<>>
    ELSE (IF Displayable(course.tabs[i], course, settings, user)
          THEN Yielded(course.tabs[i], i, course, inline_collections)
          ELSE <<>>)
         \o iterate_backwards(i - 1, course, settings, user, inline_collections)

\* mutant: the stored list is walked from its end
iterate_displayable_reversed(course, settings, user, inline_collections) ==
    iterate_backwards(Len(course.tabs), course, settings, user, inline_collections)

\* CourseTabList.iterate_displayable(course, settings, user, inline_collections)
iterate_displayable(course, settings, user, inline_collections) ==
    iterate_from(1, course, settings, user, inline_collections)

(***************************************************************************)
(* Inputs of the model.                                                    *)
(***************************************************************************)
SeqsUpTo(S, n) == UNION {[1..k -> S] : k \in 0..n}

\* one record per type the validator counts, an unknown type, no type
PlainDicts ==
    {Dict([type |-> t]) : t \in {"courseware", "textbooks", "pdf_textbooks",
                                 "html_textbooks", "unknown_widget"}}
    \cup {Dict([type |-> "course_info", name |-> "Course Info"]),
          Dict([type |-> "notes", name |-> "Notes"]),
          Dict([type |-> "wiki", name |-> "Wiki", is_hidden |-> TRUE]),
          Dict([name |-> "Untyped"])}

\* records with names, hidden flags and a missing required name
RichDicts ==
    {Dict([type |-> "courseware", name |-> "Courseware"]),
     Dict([type |-> "course_info", name |-> "Course Info"]),
     Dict([type |-> "wiki", name |-> "Wiki", is_hidden |-> FALSE]),
     Dict([type |-> "wiki", name |-> "Wiki"]),
     Dict([type |-> "progress", name |-> "My Progress"]),
     Dict([type |-> "discussion"])}

\* the course-view tabs the records above deserialize to
TabInputs ==
    {CourseTab_from_json(d.items).tab : d \in
        {e \in PlainDicts \cup RichDicts :
            /\ CourseTab_from_json(e.items).outcome = "return"
            /\ CourseTab_from_json(e.items).tab.kind = "tab"}}

\* elements of a mixed list: live tabs, plain records and something else
MixedElems ==
    {CourseTab_from_json([type |-> "courseware", name |-> "Courseware"]).tab,
     CourseTab_from_json([type |-> "wiki", name |-> "Wiki", is_hidden |-> TRUE]).tab,
     Dict([type |-> "course_info", name |-> "Course Info"]),
     Dict([type |-> "unknown_widget", name |-> "Widget"]),
     Other}

JsonInputs ==
    {PyNone} \cup
    {PyList(s) : s \in SeqsUpTo(PlainDicts, MaxLen) \cup SeqsUpTo(RichDicts, MaxRecs)
                       \cup SeqsUpTo(TabInputs, MaxRecs) \cup SeqsUpTo(MixedElems, MaxMixed)}

\* the tabs the model appends to a course
AppendTabs ==
    {CourseTab_from_json(d).tab : d \in
        {[type |-> "courseware", name |-> "Courseware"],
         [type |-> "wiki", name |-> "Wiki"],
         [type |-> "discussion", name |-> "Discussion"],
         ExternalDiscussionDict("http://other.example")}}
    \cup {StaticTabInit("Resources", "resources", "static_tab_resources")}

\* the arguments of the lookups
SlugInputs == {"resources", None}
TypeInputs == {"wiki", "static_tab"}
IdInputs == {"static_tab_resources", "static_tab"}

\* the tabs course.tabs is extended with
ExtendWith ==
    {CourseTab_from_json(d).tab : d \in
        {[type |-> "courseware", name |-> "Courseware"],
         [type |-> "wiki", name |-> "Wiki"]}}

\* the stored tabs iterate_displayable is called on
ShownTabs ==
    {CourseTab_from_json(d).tab : d \in
        {[type |-> "courseware", is_hidden |-> TRUE],
         [type |-> "progress", name |-> "Progress"],
         [type |-> "wiki", name |-> "Wiki"],
         [type |-> "wiki", name |-> "Wiki", is_hidden |-> TRUE],
         [type |-> "textbooks"],
         [type |-> "pdf_textbooks"]}}

\* the tabs whose items are read, assigned and compared
TabSubjects ==
    {CourseTab_from_json(d).tab : d \in
        {[type |-> "courseware", name |-> "Courseware"],
         [type |-> "wiki", name |-> "Wiki", is_hidden |-> TRUE],
         [type |-> "progress", name |-> "Progress"],
         ExternalDiscussionDict("http://other.example")}}

TabKeys == {"name", "type", "tab_id", "is_hidden", "url_slug"}
GetDefaults == {None, "fallback"}

\* the values assigned under each key
SetValues(key) ==
    IF key = "name" THEN {"Renamed", None}
    ELSE IF key = "tab_id" THEN {"renamed_id"}
    ELSE IF key = "is_hidden" THEN BOOLEAN
    ELSE IF key = "type" THEN {"progress"}
    ELSE {"slug"}

\* the right-hand sides of ==: tabs and plain records
EqOthers ==
    {CourseTab_from_json(d).tab : d \in
        {[type |-> "wiki", name |-> "Wiki"],
         [type |-> "wiki", name |-> "Renamed", is_hidden |-> TRUE],
         [type |-> "wiki", name |-> None],
         [type |-> "courseware", name |-> "Wiki"]}}
    \cup {Dict([type |-> "wiki"]),
          Dict([type |-> "wiki", name |-> "Wiki"]),
          Dict([type |-> "progress", name |-> "My Progress"]),
          Dict([type |-> "courseware", name |-> None]),
          Dict([name |-> "Wiki"])}

\* the tabs a course team adds to a course that is on display
LiveTabs ==
    {CourseTab_from_json(d).tab : d \in
        {[type |-> "wiki", name |-> "Wiki"],
         [type |-> "textbooks"]}}

SettingsInputs == [WIKI_ENABLED : BOOLEAN, ENABLE_TEXTBOOK : BOOLEAN]
UserInputs == {None, "student"}

AllOf(v, P(_)) == ~v.none /\ \A i \in 1..Len(v.items) : P(v.items[i])
IsRecordOrTab(e) == IsDict(e) \/ IsTab(e)

(***************************************************************************)
(* State machine.                                                          *)
(***************************************************************************)
NoCall ==
    [op |-> "none", arg |-> 0, outcome |-> "none", reason |-> "", tab |-> NoTab,
     ref |-> 0, out |-> <<>>, factory_calls |-> <<>>, json |-> <<>>,
     key |-> "", args |-> <<>>]

\* a new course: no tabs yet
Init ==
    /\ tabs = <<>>
    /\ discussion_link \in {None, "", ForumLink}
    /\ syllabus_present \in BOOLEAN
    /\ textbooks = 0
    /\ values = PyNone
    /\ call = NoCall

\* the (de)serialization calls on an argument list
InitJson ==
    /\ tabs = <<>>
    /\ discussion_link = None
    /\ syllabus_present = FALSE
    /\ textbooks = 0
    /\ values \in JsonInputs
    /\ call = NoCall

Course == <<tabs, discussion_link, syllabus_present, textbooks>>

\* CourseTabList.validate_tabs(values)
ValidateTabs ==
    /\ values.none \/ AllOf(values, IsRecordOrTab)
    /\ call' = [NoCall EXCEPT !.op = "validate_tabs",
                              !.outcome = validate_tabs(values).outcome,
                              !.reason = validate_tabs(values).reason]
    /\ UNCHANGED <<Course, values>>

\* CourseTabList.from_json(values)
FromJson ==
    /\ values.none \/ AllOf(values, IsDict)
    /\ call' = [NoCall EXCEPT !.op = "from_json",
                              !.outcome = CourseTabList_from_json(values).outcome,
                              !.out = CourseTabList_from_json(values).out,
                              !.factory_calls =
                                  CourseTabList_from_json(values).factory_calls]
    /\ UNCHANGED <<Course, values>>

\* CourseTabList.to_json(values)
ToJson ==
    /\ call' = [NoCall EXCEPT !.op = "to_json", !.outcome = "return",
                              !.out = CourseTabList_to_json(values)]
    /\ UNCHANGED <<Course, values>>

\* CourseTabList.from_json(CourseTabList.to_json(values)) on a list of tabs
RoundTrip ==
    /\ AllOf(values, IsTab)
    /\ LET json == CourseTabList_to_json(values)
           back == CourseTabList_from_json(PyList(json))
       IN  call' = [NoCall EXCEPT !.op = "round_trip", !.json = json,
                                  !.outcome = back.outcome, !.out = back.out,
                                  !.factory_calls = back.factory_calls]
    /\ UNCHANGED <<Course, values>>

\* tab.to_json() of a single tab
TabToJson ==
    /\ ~values.none /\ Len(values.items) = 1
    /\ \E i \in 1..Len(values.items) :
        /\ IsTab(values.items[i])
        /\ call' = [NoCall EXCEPT !.op = "tab_to_json", !.arg = i, !.outcome = "return",
                                  !.out = <<Dict(Tab_to_json(values.items[i]))>>]
    /\ UNCHANGED <<Course, values>>

\* CourseTab.from_json(record) of a single record
TabFromJson ==
    /\ ~values.none /\ Len(values.items) = 1
    /\ \E i \in 1..Len(values.items) :
        /\ IsDict(values.items[i])
        /\ call' = [NoCall EXCEPT !.op = "tab_from_json", !.arg = i,
                        !.outcome = CourseTab_from_json(values.items[i].items).outcome,
                        !.tab = CourseTab_from_json(values.items[i].items).tab]
    /\ UNCHANGED <<Course, values>>

\* mutant: the default tabs replace what the course held
InitializeDefault_replacing ==
    /\ Len(tabs) <= MaxBeforeDefault
    /\ tabs' = initialize_default(<<>>, syllabus_present, discussion_link)
    /\ call' = [NoCall EXCEPT !.op = "initialize_default", !.arg = Len(tabs),
                              !.outcome = "return"]
    /\ UNCHANGED <<discussion_link, syllabus_present, textbooks, values>>

\* CourseTabList.initialize_default(course)
InitializeDefault ==
    /\ Len(tabs) <= MaxBeforeDefault
    /\ tabs' = initialize_default(tabs, syllabus_present, discussion_link)
    /\ call' = [NoCall EXCEPT !.op = "initialize_default", !.arg = Len(tabs),
                              !.outcome = "return"]
    /\ UNCHANGED <<discussion_link, syllabus_present, textbooks, values>>

\* mutant: the list validates itself on append and refuses an invalid result
AppendTab_validating ==
    /\ Len(tabs) < MaxTabs
    /\ \E t \in AppendTabs :
        LET v == validate_tabs(PyList(Append(tabs, t)))
        IN  /\ tabs' = IF v.outcome = "return" THEN Append(tabs, t) ELSE tabs
            /\ call' = [NoCall EXCEPT !.op = "append", !.outcome = v.outcome, !.tab = t]
    /\ UNCHANGED <<discussion_link, syllabus_present, textbooks, values>>

\* course.tabs.append(tab)
AppendTab ==
    /\ Len(tabs) < MaxTabs
    /\ \E t \in AppendTabs :
        /\ tabs' = Append(tabs, t)
        /\ call' = [NoCall EXCEPT !.op = "append", !.outcome = "return", !.tab = t]
    /\ UNCHANGED <<discussion_link, syllabus_present, textbooks, values>>

\* course.tabs.extend(more)
ExtendTabs ==
    /\ \E more \in SeqsUpTo(ExtendWith, MaxExtend) :
        /\ Len(tabs) + Len(more) <= MaxTabs
        /\ tabs' = tabs \o more
        /\ call' = [NoCall EXCEPT !.op = "extend", !.outcome = "return", !.out = more]
    /\ UNCHANGED <<discussion_link, syllabus_present, textbooks, values>>

\* CourseTabList.get_discussion(course)
GetDiscussion ==
    /\ call' = [NoCall EXCEPT !.op = "get_discussion",
                    !.outcome = get_discussion(tabs, discussion_link).outcome,
                    !.tab = get_discussion(tabs, discussion_link).tab,
                    !.ref = get_discussion(tabs, discussion_link).ref]
    /\ UNCHANGED <<Course, values>>

\* a course with stored tabs and books
InitShow ==
    /\ tabs \in SeqsUpTo(ShownTabs, MaxShown)
    /\ discussion_link = None
    /\ syllabus_present = FALSE
    /\ textbooks \in 0..MaxBooks
    /\ values = PyNone
    /\ call = NoCall

\* list(CourseTabList.iterate_displayable(course, settings, user, inline_collections))
IterateDisplayable ==
    /\ \E settings \in SettingsInputs, user \in UserInputs, inline \in BOOLEAN :
        call' = [NoCall EXCEPT
                    !.op = "iterate_displayable", !.outcome = "return",
                    !.args = [settings |-> settings, user |-> user, inline |-> inline],
                    !.out = iterate_displayable(
                                CourseOf(tabs, discussion_link, syllabus_present, textbooks),
                                settings, user, inline)]
    /\ UNCHANGED <<Course, values>>

NextShow == IterateDisplayable

\* one tab, held as tabs[1]
InitTab ==
    /\ tabs \in {<<t>> : t \in TabSubjects}
    /\ discussion_link = None
    /\ syllabus_present = FALSE
    /\ textbooks = 0
    /\ values = PyNone
    /\ call = NoCall

\* tab.get(key, default)
TabGet ==
    /\ \E key \in TabKeys, default \in GetDefaults :
        call' = [NoCall EXCEPT !.op = "get", !.outcome = "return", !.key = key,
                               !.args = [default |-> default],
                               !.out = <<CourseTab_get(tabs[1], key, default)>>]
    /\ UNCHANGED <<Course, values>>

\* tab[key]
TabGetItem ==
    /\ \E key \in TabKeys :
        call' = [NoCall EXCEPT
                    !.op = "getitem", !.key = key,
                    !.outcome = IF Tab_getitem(tabs[1], key).found
                                THEN "return" ELSE "KeyError",
                    !.out = IF Tab_getitem(tabs[1], key).found
                            THEN <<Tab_getitem(tabs[1], key).value>> ELSE <<>>]
    /\ UNCHANGED <<Course, values>>

\* tab[key] = value
TabSetItem ==
    /\ \E key \in TabKeys : \E value \in SetValues(key) :
        /\ tabs' = <<Tab_setitem(tabs[1], key, value).tab>>
        /\ call' = [NoCall EXCEPT !.op = "setitem", !.key = key,
                                  !.args = [value |-> value],
                                  !.outcome = Tab_setitem(tabs[1], key, value).outcome,
                                  !.tab = tabs[1]]
    /\ UNCHANGED <<discussion_link, syllabus_present, textbooks, values>>

\* tab == other and tab != other
TabEq ==
    /\ \E other \in EqOthers :
        call' = [NoCall EXCEPT !.op = "eq", !.outcome = "return", !.tab = other,
                               !.out = <<CourseTab_eq(tabs[1], other)>>,
                               !.args = [ne |-> CourseTab_ne(tabs[1], other)]]
    /\ UNCHANGED <<Course, values>>

\* tab.to_json()
TabSerialize ==
    /\ call' = [NoCall EXCEPT !.op = "to_json", !.outcome = "return",
                              !.out = <<Dict(Tab_to_json(tabs[1]))>>]
    /\ UNCHANGED <<Course, values>>

NextTab == TabGet \/ TabGetItem \/ TabSetItem \/ TabEq \/ TabSerialize

\* the call record of a lookup for `wanted` that reported r
Lookup(op, wanted, r) ==
    [NoCall EXCEPT !.op = op, !.key = wanted, !.outcome = r.outcome,
                   !.tab = r.tab, !.ref = r.ref]

\* CourseTabList.get_tab_by_slug(course.tabs, url_slug)
GetTabBySlug ==
    /\ \E url_slug \in SlugInputs :
        call' = Lookup("get_tab_by_slug", url_slug, get_tab_by_slug(tabs, url_slug))
    /\ UNCHANGED <<Course, values>>

\* CourseTabList.get_tab_by_type(course.tabs, tab_type)
GetTabByType ==
    /\ \E tab_type \in TypeInputs :
        call' = Lookup("get_tab_by_type", tab_type, get_tab_by_type(tabs, tab_type))
    /\ UNCHANGED <<Course, values>>

\* CourseTabList.get_tab_by_id(course.tabs, tab_id)
GetTabById ==
    /\ \E tab_id \in IdInputs :
        call' = Lookup("get_tab_by_id", tab_id, get_tab_by_id(tabs, tab_id))
    /\ UNCHANGED <<Course, values>>

\* a course on display: no tabs and no books yet, nothing displayed yet
InitLive ==
    /\ tabs = <<>>
    /\ discussion_link = None
    /\ syllabus_present = FALSE
    /\ textbooks = 0
    /\ values = PyNone
    /\ call = NoCall

\* course.tabs.append(tab) on the course on display
AppendLive ==
    /\ Len(tabs) < MaxLive
    /\ \E t \in LiveTabs :
        /\ tabs' = Append(tabs, t)
        /\ call' = [NoCall EXCEPT !.op = "append", !.outcome = "return", !.tab = t]
    /\ UNCHANGED <<discussion_link, syllabus_present, textbooks, values>>

\* course.tabs[i]['is_hidden'] = value
SetHidden ==
    /\ \E i \in 1..Len(tabs), value \in BOOLEAN :
        /\ tabs' = [tabs EXCEPT ![i] = Tab_setitem(tabs[i], "is_hidden", value).tab]
        /\ call' = [NoCall EXCEPT !.op = "setitem", !.key = "is_hidden", !.ref = i,
                                  !.args = [value |-> value],
                                  !.outcome = Tab_setitem(tabs[i], "is_hidden", value).outcome,
                                  !.tab = tabs[i]]
    /\ UNCHANGED <<discussion_link, syllabus_present, textbooks, values>>

\* a book is added to the course
AddBook ==
    /\ textbooks < MaxBooks
    /\ textbooks' = textbooks + 1
    /\ call' = [NoCall EXCEPT !.op = "add_book", !.outcome = "return"]
    /\ UNCHANGED <<tabs, discussion_link, syllabus_present, values>>

\* what a call of iterate_displayable leaves: the call record, with ref
\* telling how the list compares with the one the caller got before (0 no
\* earlier call, 1 the same list, 2 another list), and the list in values
Displayed(settings, user, inline, out) ==
    /\ call' = [NoCall EXCEPT
                    !.op = "iterate_displayable", !.outcome = "return",
                    !.args = [settings |-> settings, user |-> user, inline |-> inline],
                    !.out = out,
                    !.ref = IF values.none THEN 0 ELSE IF values.items = out THEN 1 ELSE 2]
    /\ values' = PyList(out)
    /\ UNCHANGED Course

\* mutant: once a list was computed, later calls hand it out again
IterateLive_cached ==
    \E settings \in SettingsInputs, user \in UserInputs, inline \in BOOLEAN :
        Displayed(settings, user, inline,
                  IF values.none
                  THEN iterate_displayable(
                          CourseOf(tabs, discussion_link, syllabus_present, textbooks),
                          settings, user, inline)
                  ELSE values.items)

\* list(CourseTabList.iterate_displayable(course, settings, user, inline_collections)),
\* called again and again on the course on display
IterateLive ==
    \E settings \in SettingsInputs, user \in UserInputs, inline \in BOOLEAN :
        Displayed(settings, user, inline,
                  iterate_displayable(
                      CourseOf(tabs, discussion_link, syllabus_present, textbooks),
                      settings, user, inline))

NextLive == AppendLive \/ SetHidden \/ AddBook \/ IterateLive

\* mutant: an invalid stored list is replaced by the default tabs
ValidateStored_correcting ==
    /\ call' = [NoCall EXCEPT !.op = "validate_stored",
                              !.outcome = validate_tabs(PyList(tabs)).outcome,
                              !.reason = validate_tabs(PyList(tabs)).reason]
    /\ tabs' = IF validate_tabs(PyList(tabs)).outcome = "return" THEN tabs
               ELSE initialize_default(<<>>, syllabus_present, discussion_link)
    /\ UNCHANGED <<discussion_link, syllabus_present, textbooks, values>>

\* CourseTabList.validate_tabs(course.tabs)
ValidateStored ==
    /\ call' = [NoCall EXCEPT !.op = "validate_stored",
                              !.outcome = validate_tabs(PyList(tabs)).outcome,
                              !.reason = validate_tabs(PyList(tabs)).reason]
    /\ UNCHANGED <<Course, values>>

\* CourseTabList().to_json(course.tabs)
ToJsonStored ==
    /\ call' = [NoCall EXCEPT !.op = "to_json", !.outcome = "return",
                              !.out = CourseTabList_to_json(PyList(tabs))]
    /\ UNCHANGED <<Course, values>>

\* a course as it is stored: the default tabs, or whatever was appended
InitRead ==
    /\ discussion_link \in {None, ForumLink}
    /\ syllabus_present = FALSE
    /\ tabs \in SeqsUpTo(AppendTabs, MaxStored)
                \cup {initialize_default(<<>>, syllabus_present, discussion_link)}
    /\ textbooks \in 0..MaxBooks
    /\ values = PyNone
    /\ call = NoCall

NextRead ==
    \/ ValidateStored \/ ToJsonStored \/ GetDiscussion
    \/ GetTabBySlug \/ GetTabByType \/ GetTabById
    \/ IterateDisplayable

Next ==
    \/ InitializeDefault \/ AppendTab \/ ExtendTabs
    \/ GetDiscussion \/ ValidateStored
    \/ GetTabBySlug \/ GetTabByType \/ GetTabById

NextJson == ValidateTabs \/ FromJson \/ ToJson \/ RoundTrip \/ TabToJson \/ TabFromJson

\* the life of a course's tab list
Spec == Init /\ [][Next]_vars

\* the list-level calls, each on every argument of JsonInputs
SpecJson == InitJson /\ [][NextJson]_vars

\* displaying the tabs of a course
SpecShow == InitShow /\ [][NextShow]_vars

\* reading, assigning and comparing one tab
SpecTab == InitTab /\ [][NextTab]_vars

\* the calls that only read a stored course
SpecRead == InitRead /\ [][NextRead]_vars

\* a course that changes between calls of iterate_displayable
SpecLive == InitLive /\ [][NextLive]_vars

(***************************************************************************)
(* Properties.                                                             *)
(***************************************************************************)
TypeOf(e) == ElemGet(e, "type", None)

SingletonSet ==
    {"courseware", "course_info", "notes", "textbooks", "pdf_textbooks", "html_textbooks"}

\* the structural rule for a non-empty list, stated on positions
WellFormed(s) ==
    /\ Len(s) >= 2
    /\ TypeOf(s[1]) = "courseware"
    /\ TypeOf(s[2]) = "course_info"
    /\ \A i, j \in 1..Len(s) :
          (i # j /\ TypeOf(s[i]) = TypeOf(s[j])) => TypeOf(s[i]) \notin SingletonSet

Validated == call.op = "validate_tabs"

\* C1: on a non-empty list validate_tabs returns if and only if element 0 is
\* 'courseware', element 1 is 'course_info' and no singleton type occurs
\* twice; otherwise it raises InvalidTabsException.
C1_ValidateIffWellFormed ==
    (Validated /\ ~values.none /\ Len(values.items) > 0) =>
        /\ call.outcome \in {"return", "InvalidTabsException"}
        /\ (call.outcome = "return") <=> WellFormed(values.items)

\* a list with the right prefix rejected for a repeated singleton type
C1_Witness ==
    /\ Validated /\ ~values.none /\ Len(values.items) = 4
    /\ TypeOf(values.items[1]) = "courseware"
    /\ TypeOf(values.items[2]) = "course_info"
    /\ TypeOf(values.items[3]) = "pdf_textbooks"
    /\ TypeOf(values.items[4]) = "pdf_textbooks"
    /\ call.outcome = "InvalidTabsException"

\* C2: validate_tabs returns on the empty list and on None, and raises on
\* every list of exactly one entry, a lone 'courseware' included.
C2_EmptyPassesSingleRaises ==
    Validated =>
        /\ (values.none \/ Len(values.items) = 0) => call.outcome = "return"
        /\ (~values.none /\ Len(values.items) = 1) =>
               call.outcome = "InvalidTabsException"

\* a lone courseware tab rejected
C2_Witness ==
    /\ Validated /\ ~values.none /\ Len(values.items) = 1
    /\ TypeOf(values.items[1]) = "courseware"
    /\ call.outcome = "InvalidTabsException"

\* C3: from_json validates the whole list first: on a list that breaks the
\* structural rule it raises with no record handed to CourseTab.from_json and
\* no list returned.
C3_ValidateBeforeDeserialize ==
    (call.op = "from_json" /\ ~values.none /\ Len(values.items) > 0
        /\ ~WellFormed(values.items)) =>
        /\ call.outcome = "InvalidTabsException"
        /\ call.factory_calls = <<>>
        /\ call.out = <<>>

\* a list whose records all deserialize, rejected for its order
C3_Witness ==
    /\ call.op = "from_json" /\ ~values.none /\ Len(values.items) = 2
    /\ TypeOf(values.items[1]) = "course_info"
    /\ TypeOf(values.items[2]) = "courseware"
    /\ call.outcome = "InvalidTabsException"
    /\ call.factory_calls = <<>>

Registered(e) == TypeOf(e) \in KnownTypes

\* the record carries every key its registered type requires
Complete(e) == Registry[TypeOf(e)].required \subseteq DOMAIN e.items

\* the tabs of the registered records of s, in the order of s
TabsOfRegistered(s) ==
    LET kept == SelectSeq(s, Registered)
    IN  [i \in 1..Len(kept) |-> CourseTab_from_json(kept[i].items).tab]

Loaded == call.op = "from_json" /\ ~values.none

\* C4 as stated: every list that passes validation is returned as the tabs
\* of its registered records.
C4_AsStated ==
    (Loaded /\ validate_tabs(values).outcome = "return") =>
        /\ call.outcome = "return"
        /\ call.out = TabsOfRegistered(values.items)

\* C4 (amended): for a list that passes validation and whose registered
\* records each carry their required fields, from_json returns exactly the
\* tabs of the registered records in their original order; a record of an
\* unregistered type makes CourseTab.from_json return None without raising and
\* is left out, the records after it still being deserialized.
C4_UnknownTypesDropped ==
    (Loaded /\ validate_tabs(values).outcome = "return"
        /\ \A i \in 1..Len(values.items) :
              Registered(values.items[i]) => Complete(values.items[i])) =>
        /\ call.outcome = "return"
        /\ call.out = TabsOfRegistered(values.items)
        /\ \A i \in 1..Len(call.out) : call.out[i].kind = "tab"
        /\ call.factory_calls = values.items
        /\ \A i \in 1..Len(values.items) :
              ~Registered(values.items[i]) =>
                  CourseTab_from_json(values.items[i].items) =
                      [outcome |-> "return", tab |-> NoTab]

\* an unknown record in the middle is dropped, the record after it is kept
C4_Witness ==
    /\ Loaded /\ Len(values.items) = 4
    /\ TypeOf(values.items[3]) = "unknown_widget"
    /\ TypeOf(values.items[4]) = "textbooks"
    /\ call.outcome = "return"
    /\ Len(call.out) = 3
    /\ call.out[3].type = "textbooks"

\* C5: CourseTab.from_json raises InvalidTabsException on a record of a
\* registered type that lacks a required field (no tab, no None); one such
\* record anywhere in the list makes CourseTabList.from_json raise and
\* return no list.
C5_IncompleteRecordRaises ==
    /\ (call.op = "tab_from_json" /\ Registered(values.items[1])
            /\ ~Complete(values.items[1])) =>
          (call.outcome = "InvalidTabsException" /\ call.tab = NoTab)
    /\ (Loaded /\ \E i \in 1..Len(values.items) :
                      Registered(values.items[i]) /\ ~Complete(values.items[i])) =>
          (call.outcome = "InvalidTabsException" /\ call.out = <<>>)

\* a well-formed list aborted by its third record, which lacks its name
C5_Witness ==
    /\ Loaded /\ Len(values.items) = 3
    /\ WellFormed(values.items)
    /\ values.items[3] = Dict([type |-> "discussion"])
    /\ call.outcome = "InvalidTabsException"
    /\ Len(call.factory_calls) = 3

TabList == ~values.none /\ \A i \in 1..Len(values.items) : IsTab(values.items[i])

\* the round trip returned the tabs it was given
SameTabs ==
    /\ call.outcome = "return"
    /\ ListEq(call.out, values.items)
    /\ \A i \in 1..Len(values.items) :
          /\ call.out[i].is_hidden = values.items[i].is_hidden
          /\ ("is_hidden" \in DOMAIN call.json[i].items) <=> values.items[i].is_hidden

\* C6 as stated: the round trip returns the tabs of any list of known types.
C6_AsStated == (call.op = "round_trip" /\ TabList) => SameTabs

\* C6 (amended): for any list of tabs of known types that passes
\* validate_tabs, from_json(to_json(tabs)) equals tabs element-wise (same
\* length and order, each pair equal under tab equality); is_hidden is left
\* out of the record when false and restored as false, kept when true.
C6_RoundTrip ==
    (call.op = "round_trip" /\ TabList
        /\ (Len(values.items) = 0 \/ WellFormed(values.items))) => SameTabs

\* a well-formed list with a hidden tab went through the round trip
C6_Witness ==
    /\ call.op = "round_trip" /\ TabList /\ Len(values.items) = 3
    /\ WellFormed(values.items)
    /\ values.items[3].is_hidden
    /\ call.outcome = "return"

\* C7: tab.to_json() has exactly the keys type and name with the tab's
\* current values, plus is_hidden (TRUE) exactly when the tab is hidden;
\* tab_id is never a key.
C7_TabToJsonKeys ==
    (call.op = "tab_to_json") =>
        LET tab == values.items[1]
            rec == call.out[1].items
        IN  /\ DOMAIN rec = (IF tab.is_hidden THEN {"type", "name", "is_hidden"}
                             ELSE {"type", "name"})
            /\ rec["type"] = tab.type
            /\ rec["name"] = tab.name
            /\ ("is_hidden" \in DOMAIN rec) => rec["is_hidden"] = TRUE
            /\ "tab_id" \notin DOMAIN rec

\* a hidden tab was serialized
C7_Witness ==
    /\ call.op = "tab_to_json"
    /\ values.items[1].is_hidden
    /\ "is_hidden" \in DOMAIN call.out[1].items

\* C8: CourseTabList.to_json maps each tab to its to_json record, passes each
\* dict through unchanged and skips everything else, keeping the order of what
\* is kept; an empty or None input gives the empty list.
C8_ToJsonMixed ==
    (call.op = "to_json") =>
        LET kept == IF values.none THEN <<>> ELSE SelectSeq(values.items, IsRecordOrTab)
        IN  /\ Len(call.out) = Len(kept)
            /\ \A i \in 1..Len(kept) :
                  call.out[i] = (IF IsTab(kept[i]) THEN Dict(Tab_to_json(kept[i]))
                                 ELSE kept[i])

\* a tab, something that is neither, and a dict, in this order
C8_Witness ==
    /\ call.op = "to_json" /\ ~values.none /\ Len(values.items) = 3
    /\ IsTab(values.items[1]) /\ values.items[2] = Other /\ IsDict(values.items[3])
    /\ Len(call.out) = 2
    /\ call.out[2] = values.items[3]

Discussed == call.op = "get_discussion"

DiscussionTypes == {"discussion", "external_discussion"}

\* C9: with a non-empty course.discussion_link get_discussion returns a new
\* external_discussion tab whose link is discussion_link, never a stored tab,
\* whatever the stored list holds.
C9_LinkOverrides ==
    (Discussed /\ Truthy(discussion_link)) =>
        /\ call.outcome = "return"
        /\ call.ref = 0
        /\ call.tab.kind = "tab"
        /\ call.tab.type = "external_discussion"
        /\ call.tab.link_func = [fn |-> "value", arg |-> discussion_link]

\* the override wins over a stored discussion tab and a stored external one
C9_Witness ==
    /\ Discussed /\ discussion_link = ForumLink
    /\ Len(tabs) >= 2
    /\ tabs[1].type = "discussion" /\ tabs[2].type = "external_discussion"
    /\ call.tab.type = "external_discussion" /\ call.ref = 0

\* C10: without a discussion_link get_discussion returns the first stored tab
\* of type discussion or external_discussion, and None when there is none.
C10_FirstStoredDiscussion ==
    (Discussed /\ ~Truthy(discussion_link)) =>
        /\ call.outcome = "return"
        /\ IF \A i \in 1..Len(tabs) : tabs[i].type \notin DiscussionTypes
           THEN call.tab = NoTab /\ call.ref = 0
           ELSE /\ call.ref \in 1..Len(tabs)
                /\ call.tab = tabs[call.ref]
                /\ call.tab.type \in DiscussionTypes
                /\ \A j \in 1..(call.ref - 1) : tabs[j].type \notin DiscussionTypes

\* two stored discussion tabs after a wiki tab: the first of them is returned
C10_Witness ==
    /\ Discussed /\ ~Truthy(discussion_link)
    /\ Len(tabs) >= 3
    /\ tabs[1].type = "wiki"
    /\ tabs[2].type = "external_discussion" /\ tabs[3].type = "discussion"
    /\ call.ref = 2

Shown == call.op = "iterate_displayable"

TheCourse == CourseOf(tabs, discussion_link, syllabus_present, textbooks)

\* the stored tab at index i is enabled for the caller of the last call
EnabledAt(i) == Tab_is_enabled(tabs[i], TheCourse, call.args.settings, call.args.user)

\* the stored tab at index i passes the filter of the last call
Passes(i) ==
    /\ EnabledAt(i)
    /\ (call.args.user = None \/ ~tabs[i].is_hideable \/ ~tabs[i].is_hidden)

\* what the last call yielded for the stored tab at index i
From(i) == LET Mine(e) == e.src = i IN SelectSeq(call.out, Mine)

ItemsAt(i) == CourseViewTab_items(tabs[i], TheCourse)

\* C11: a stored tab is considered for output if and only if it is enabled
\* and (no user is given, or it is not hideable, or it is not hidden); a tab
\* that fails contributes neither itself nor any item.
C11_FilterDecides ==
    Shown => \A i \in 1..Len(tabs) :
        /\ ~Passes(i) => From(i) = <<>>
        /\ (Passes(i) /\ ~tabs[i].is_collection) => From(i) = <<Entry(tabs[i], i, 0)>>
        /\ (Passes(i) /\ tabs[i].is_collection /\ Len(ItemsAt(i)) > 0) => From(i) # <<>>

\* for a student: a hidden wiki and a disabled collection with books give
\* nothing, a hidden tab that is not hideable is shown
C11_Witness ==
    /\ Shown /\ call.args.user = "student"
    /\ call.args.settings.WIKI_ENABLED /\ ~call.args.settings.ENABLE_TEXTBOOK
    /\ textbooks = 2 /\ Len(tabs) = 3
    /\ tabs[1].type = "wiki" /\ tabs[1].is_hidden
    /\ tabs[2].type = "textbooks"
    /\ tabs[3].type = "courseware" /\ tabs[3].is_hidden
    /\ call.out = <<Entry(tabs[3], 3, 0)>>

HiddenAt(i) == tabs[i].is_hideable /\ tabs[i].is_hidden

\* C12 as stated: a hidden, hideable tab is left out for a user and included
\* when there is no user.
C12_AsStated ==
    Shown => \A i \in 1..Len(tabs) : HiddenAt(i) =>
        /\ call.args.user # None => From(i) = <<>>
        /\ call.args.user = None => From(i) # <<>>

\* C12 (amended): a hidden, hideable tab is left out when a user is given;
\* when no user is given it is included provided it is enabled.
C12_HiddenOnlyForUsers ==
    Shown => \A i \in 1..Len(tabs) : HiddenAt(i) =>
        /\ call.args.user # None => From(i) = <<>>
        /\ (call.args.user = None /\ EnabledAt(i) /\ ~tabs[i].is_collection) =>
               From(i) = <<Entry(tabs[i], i, 0)>>
        /\ (call.args.user = None /\ ~EnabledAt(i)) => From(i) = <<>>

\* a hidden wiki tab shown to a caller that names no user
C12_Witness ==
    /\ Shown /\ call.args.user = None /\ call.args.settings.WIKI_ENABLED
    /\ Len(tabs) >= 1 /\ tabs[1].type = "wiki" /\ HiddenAt(1)
    /\ From(1) = <<Entry(tabs[1], 1, 0)>>

C14_CollectionAsOneTab ==
    (Shown /\ ~call.args.inline) =>
        /\ \A i \in 1..Len(tabs) : (Passes(i) /\ tabs[i].is_collection) =>
              From(i) = (IF Len(ItemsAt(i)) > 0 THEN <<Entry(tabs[i], i, 0)>> ELSE <<>>)
        /\ \A k \in 1..Len(call.out) : call.out[k].tab.is_collection =>
              Len(CourseViewTab_items(call.out[k].tab, TheCourse)) > 0

\* an enabled collection without books is left out, the tab after it is shown
C14_Witness ==
    /\ Shown /\ ~call.args.inline /\ textbooks = 0
    /\ Len(tabs) = 2 /\ tabs[1].type = "textbooks" /\ Passes(1)
    /\ tabs[2].type = "progress"
    /\ call.out = <<Entry(tabs[2], 2, 0)>>

\* C15: the output follows the stored order: what is yielded for an earlier
\* stored tab precedes what is yielded for a later one, and the items of one
\* collection are adjacent and in the order items(course) gives them.
C15_StoredOrder ==
    Shown =>
        /\ \A k, l \in 1..Len(call.out) : k < l =>
              \/ call.out[k].src < call.out[l].src
              \/ (call.out[k].src = call.out[l].src /\ call.out[k].item < call.out[l].item)
        /\ \A k \in 1..Len(call.out) : call.out[k].item > 0 =>
              call.out[k].tab = ItemsAt(call.out[k].src)[call.out[k].item]

\* two inlined collections of two books around a plain tab
C15_Witness ==
    /\ Shown /\ call.args.inline /\ textbooks = 2
    /\ Len(tabs) = 3
    /\ tabs[1].type = "textbooks" /\ tabs[2].type = "progress"
    /\ tabs[3].type = "pdf_textbooks"
    /\ Len(call.out) = 5
    /\ call.out[3].src = 2

Defaulted == call.op = "initialize_default"

\* the types initialize_default is to append, in order
DefaultTypes ==
    <<"courseware", "course_info">>
    \o (IF syllabus_present THEN <<"syllabus">> ELSE <<>>)
    \o <<"textbooks",
         IF discussion_link \notin {None, ""} THEN "external_discussion" ELSE "discussion",
         "wiki", "progress">>

\* C16: initialize_default appends courseware, course_info, syllabus (only
\* when syllabus_present), textbooks, external_discussion when the course has
\* a discussion_link and discussion otherwise, wiki, progress - in this order.
C16_DefaultOrder ==
    Defaulted =>
        /\ Len(tabs) = call.arg + Len(DefaultTypes)
        /\ \A i \in 1..Len(DefaultTypes) :
              /\ tabs[call.arg + i].kind = "tab"
              /\ tabs[call.arg + i].type = DefaultTypes[i]

\* a new course with a syllabus and a discussion link: seven tabs
C16_Witness ==
    /\ Defaulted /\ call.arg = 0
    /\ syllabus_present /\ discussion_link = ForumLink
    /\ Len(tabs) = 7
    /\ tabs[3].type = "syllabus" /\ tabs[5].type = "external_discussion"

\* the stored list is what initialize_default makes of an empty one
FreshDefault == tabs = initialize_default(<<>>, syllabus_present, discussion_link)

\* C17: whatever syllabus_present and discussion_link are, the list that
\* initialize_default builds on an empty tab list passes validate_tabs.
C17_DefaultValidates ==
    (call.op = "validate_stored" /\ FreshDefault) =>
        (call.outcome = "return" /\ WellFormed(tabs))

\* the default tabs of a course without syllabus or link were validated
C17_Witness ==
    /\ call.op = "validate_stored" /\ FreshDefault
    /\ ~syllabus_present /\ discussion_link = ""
    /\ Len(tabs) = 6
    /\ call.outcome = "return"

NameOf(e) == ElemGet(e, "name", None)

\* C18 as stated: a tab equals another tab or a plain record exactly when the
\* types match and the name is absent on either side or the names match;
\* tab_id and is_hidden play no part.
C18_AsStated ==
    call.op = "eq" =>
        (call.out[1] <=>
            /\ tabs[1].type = TypeOf(call.tab)
            /\ \/ NameOf(tabs[1]) = None
               \/ NameOf(call.tab) = None
               \/ NameOf(tabs[1]) = NameOf(call.tab))

\* what __eq__ computes: only a missing name on the right-hand side is
\* overlooked, and != is the negation of ==
C18_RightNameOverlooked ==
    call.op = "eq" =>
        /\ call.out[1] <=>
              /\ tabs[1].type = TypeOf(call.tab)
              /\ NameOf(call.tab) = None \/ tabs[1].name = NameOf(call.tab)
        /\ call.args.ne = ~call.out[1]

\* the key is one that tab[key] reads
Supported(tab, key) ==
    \/ key \in {"name", "type", "tab_id"}
    \/ key = "is_hidden" /\ tab.cls = "CourseViewTab"

\* C19: tab.get(key, default) never fails: it returns the tab's field for
\* name, type, tab_id (and is_hidden on a course-view tab) and the supplied
\* default for every other key, while tab[key] fails with KeyError on a key
\* that is not supported.
C19_GetNeverFails ==
    /\ call.op = "get" =>
          /\ call.outcome = "return"
          /\ IF Supported(tabs[1], call.key)
             THEN call.out = <<tabs[1][call.key]>>
             ELSE call.out = <<call.args.default>>
    /\ call.op = "getitem" =>
          IF Supported(tabs[1], call.key)
          THEN call.outcome = "return" /\ call.out = <<tabs[1][call.key]>>
          ELSE call.outcome = "KeyError"

\* an unknown key read with a default on a renamed tab
C19_Witness ==
    /\ call.op = "get" /\ call.key = "url_slug"
    /\ call.args.default = "fallback"
    /\ call.out = <<"fallback">>
    /\ tabs[1].name = "Renamed"

\* C20: tab[key] = value succeeds only for name, tab_id and, on a course-view
\* tab, is_hidden; for 'type' and every other key it fails with KeyError and
\* leaves every field as it was, so no step ever changes the tab's type.
C20_TypeIsImmutable ==
    [][/\ tabs'[1].type = tabs[1].type
       /\ call'.op = "setitem" =>
             /\ (call'.outcome = "return") <=> Supported(tabs[1], call'.key) /\ call'.key # "type"
             /\ call'.outcome # "return" => (call'.outcome = "KeyError" /\ tabs' = tabs)
             /\ call'.outcome = "return" =>
                   /\ tabs'[1][call'.key] = call'.args.value
                   /\ \A f \in DOMAIN tabs[1] \ {call'.key} : tabs'[1][f] = tabs[1][f]]_vars

\* assigning 'type' failed on a tab that had been renamed before
C20_Witness ==
    /\ call.op = "setitem" /\ call.key = "type"
    /\ call.outcome = "KeyError"
    /\ tabs[1] = call.tab
    /\ tabs[1].name = "Renamed" /\ tabs[1].type = "wiki"

\* C21: append and extend put their tabs at the end and validate nothing:
\* they return even when the list they leave breaks the structural rule, and
\* the breach is raised only by a call of validate_tabs on the stored list.
C21_AppendUnvalidated ==
    [][/\ call'.op = "append" =>
             (call'.outcome = "return" /\ tabs' = Append(tabs, call'.tab))
       /\ call'.op = "extend" =>
             (call'.outcome = "return" /\ tabs' = tabs \o call'.out)
       /\ call'.op = "validate_stored" =>
             /\ tabs' = tabs
             /\ (call'.outcome = "InvalidTabsException") <=>
                    (tabs # <<>> /\ ~WellFormed(tabs))]_vars

\* a second courseware tab was stored, and validate_tabs then raised
C21_Witness ==
    /\ call.op = "validate_stored"
    /\ call.outcome = "InvalidTabsException"
    /\ Len(tabs) = 2
    /\ tabs[1].type = "courseware" /\ tabs[2].type = "courseware"

LookupOps == {"get_tab_by_slug", "get_tab_by_type", "get_tab_by_id"}

\* the field of the stored tab at index i that the last lookup compares
LookedUp(i) ==
    CASE call.op = "get_tab_by_slug" -> ElemGet(tabs[i], "url_slug", None)
      [] call.op = "get_tab_by_type" -> tabs[i].type
      [] call.op = "get_tab_by_id" -> tabs[i].tab_id

\* the indices of the stored tabs that match the argument of the last lookup
Hits == {i \in 1..Len(tabs) : LookedUp(i) = call.key}

\* C22: get_tab_by_slug, get_tab_by_type and get_tab_by_id return the first
\* stored tab whose url_slug, type or tab_id equals the argument, and return
\* None without raising when there is none, the empty list included.
C22_FirstMatch ==
    call.op \in LookupOps =>
        /\ call.outcome = "return"
        /\ IF Hits = {}
           THEN call.tab = NoTab
           ELSE /\ call.ref \in Hits
                /\ \A j \in Hits : call.ref <= j
                /\ call.tab = tabs[call.ref]

\* two wiki tabs are stored and the lookup by type returned the first
C22_Witness ==
    /\ call.op = "get_tab_by_type" /\ call.key = "wiki"
    /\ Len(tabs) = 3
    /\ tabs[1].type = "courseware" /\ tabs[2].type = "wiki" /\ tabs[3].type = "wiki"
    /\ call.ref = 2 /\ call.tab = tabs[2]

\* what the stored tab at index i gives, from the course as it is now and
\* the arguments of the last call
NowFrom(i) ==
    IF ~Passes(i) THEN <<>>
    ELSE IF ~tabs[i].is_collection THEN <<Entry(tabs[i], i, 0)>>
    ELSE IF call.args.inline THEN [j \in 1..textbooks |-> Entry(ItemsAt(i)[j], i, j)]
    ELSE IF textbooks > 0 THEN <<Entry(tabs[i], i, 0)>>
    ELSE <<>>

\* C23: iterate_displayable keeps nothing between calls: whatever was
\* assigned to a tab's is_hidden, appended to the stored list or added to a
\* collection since an earlier call, and whatever settings and user are
\* passed now, the list of a call is the one the course gives at that call.
C23_RecomputedEachCall ==
    Shown =>
        /\ \A i \in 1..Len(tabs) : From(i) = NowFrom(i)
        /\ \A k \in 1..Len(call.out) : call.out[k].src \in 1..Len(tabs)
        /\ values.items = call.out

\* a wiki tab hidden and two books added since the earlier call: the list of
\* this call is another one
C23_Witness ==
    /\ Shown /\ call.ref = 2
    /\ call.args.user = "student" /\ call.args.inline
    /\ call.args.settings.WIKI_ENABLED /\ call.args.settings.ENABLE_TEXTBOOK
    /\ Len(tabs) = 2 /\ textbooks = 2
    /\ tabs[1].type = "wiki" /\ tabs[1].is_hidden
    /\ tabs[2].type = "textbooks"
    /\ Len(call.out) = 2 /\ call.out[1].src = 2

\* the step assigns is_hidden on a course-view tab
AssignsHidden ==
    /\ call'.op = "setitem" /\ call'.key = "is_hidden"
    /\ tabs[1].cls = "CourseViewTab"

\* C24: on a course-view tab is_hidden is false when the source record had
\* none, becomes the value of each assignment tab['is_hidden'] = v and is
\* changed by nothing else; tab['is_hidden'] returns it, and tab.to_json()
\* has the key is_hidden exactly when it is true, so assigning false removes
\* the key again.
C24_HiddenFollowsAssignment ==
    /\ tabs[1].type \in {"courseware", "progress"} => ~tabs[1].is_hidden
    /\ [][/\ AssignsHidden => tabs'[1].is_hidden = call'.args.value
          /\ ~AssignsHidden => tabs'[1].is_hidden = tabs[1].is_hidden
          /\ (call'.op = "getitem" /\ call'.key = "is_hidden"
                /\ tabs[1].cls = "CourseViewTab") =>
                (call'.outcome = "return" /\ call'.out = <<tabs[1].is_hidden>>)
          /\ (call'.op = "to_json" /\ tabs[1].cls = "CourseViewTab") =>
                /\ ("is_hidden" \in DOMAIN call'.out[1].items) <=> tabs[1].is_hidden
                /\ tabs[1].is_hidden => call'.out[1].items.is_hidden = TRUE]_vars

\* the wiki tab, built hidden, was assigned false: its record has no is_hidden
C24_Witness ==
    /\ call.op = "to_json"
    /\ tabs[1].type = "wiki" /\ ~tabs[1].is_hidden
    /\ DOMAIN call.out[1].items = {"type", "name"}

ReadOnlyOps ==
    {"validate_stored", "to_json", "get_discussion", "iterate_displayable"}
    \cup LookupOps

\* C25: validate_tabs, CourseTabList.to_json, get_discussion, the three
\* lookups and iterate_displayable leave the stored list as it is - length,
\* elements, order and fields - whether they return or raise; validate_tabs
\* raises on an invalid list and does not repair it.
C25_ReadOnly ==
    [][call'.op \in ReadOnlyOps =>
          /\ tabs' = tabs
          /\ call'.outcome \in {"return", "InvalidTabsException"}
          /\ (call'.op = "validate_stored" /\ tabs # <<>> /\ ~WellFormed(tabs)) =>
                (call'.outcome = "InvalidTabsException" /\ ~WellFormed(tabs'))]_vars

\* validate_tabs raised on a lone wiki tab, which is still all the list holds
C25_Witness ==
    /\ call.op = "validate_stored"
    /\ call.outcome = "InvalidTabsException"
    /\ Len(tabs) = 1 /\ tabs[1].type = "wiki"

\* the stored list is the default tabs twice over
DefaultsTwice ==
    /\ Len(tabs) = 2 * Len(DefaultTypes)
    /\ \A i \in 1..Len(DefaultTypes) :
          /\ tabs[i].type = DefaultTypes[i]
          /\ tabs[Len(DefaultTypes) + i].type = DefaultTypes[i]

\* C26: initialize_default only appends: the entries the list held stay as
\* they were and where they were, and 6 or 7 tabs follow them; called on a
\* list that already holds the default tabs it leaves courseware, course_info
\* and textbooks twice, which validate_tabs rejects.
C26_DefaultOnlyAppends ==
    [][/\ call'.op = "initialize_default" =>
             /\ Len(tabs') - Len(tabs) \in {6, 7}
             /\ SubSeq(tabs', 1, Len(tabs)) = tabs
       /\ (call'.op = "validate_stored" /\ DefaultsTwice) =>
             /\ call'.outcome = "InvalidTabsException"
             /\ \A t \in {"courseware", "course_info", "textbooks"} :
                    Cardinality({i \in 1..Len(tabs) : tabs[i].type = t}) = 2]_vars

\* the default tabs were built twice and validate_tabs raised
C26_Witness ==
    /\ call.op = "validate_stored" /\ DefaultsTwice
    /\ Len(tabs) = 14
    /\ tabs[8].type = "courseware" /\ tabs[10].type = "syllabus"
    /\ call.outcome = "InvalidTabsException"

====
